---- MODULE Spec2Model ----
(***************************************************************************)
(* Lexer, recursive-descent parser and tree-walking interpreter of the     *)
(* Pascal-like language of src/src/{lexer,ast,parser,interpreter}.rs.      *)
(*                                                                         *)
(* A char is a one-character string, a Rust String / &str is a sequence of *)
(* chars.  A u32 is kept as two 16-bit limbs [hi, lo] so that values up to *)
(* 2^32 - 1 and the overflow of a literal stay exact.  An i32 is an        *)
(* integer in -2^31 .. 2^31 - 1.                                           *)
(***************************************************************************)
EXTENDS Integers, Sequences, FiniteSets, TLC

VARIABLES
    source,          \* the &str handed to Lexer::new (<<>> when an AST is given directly)
    lexer,           \* the Lexer: [text: the rest of the Peekable<Chars>, current: Option<char>]
    returned,        \* what the caller's Lexer::next_token calls have returned, in order
    current_token,   \* Parser.current_token
    result,          \* the outcome of Parser::parse
    scope,           \* Scope.symbols
    value,           \* the outcome of interpret
    overflow_checks, \* the build profile: i32 overflow panics (debug) or wraps (release)
    pc               \* where the caller is

vars == <<source, lexer, returned, current_token, result, scope, value,
          overflow_checks, pc>>

(***************************************************************************)
(* Characters                                                              *)
(***************************************************************************)

\* Option::None of an Option<char>
None == "None"

LowerSeq == <<"a","b","c","d","e","f","g","h","i","j","k","l","m",
              "n","o","p","q","r","s","t","u","v","w","x","y","z">>

UpperSeq == <<"A","B","C","D","E","F","G","H","I","J","K","L","M",
              "N","O","P","Q","R","S","T","U","V","W","X","Y","Z">>

DigitSeq == <<"0","1","2","3","4","5","6","7","8","9">>

Range(s) == {s[i] : i \in DOMAIN s}

IndexOf(s, c) == CHOOSE i \in DOMAIN s : s[i] = c

\* char::is_whitespace, on the ASCII white space
is_whitespace(c) == c \in {" ", "\t", "\n", "\r", "\f"}

\* char::is_digit(10)
is_digit(c) == c \in Range(DigitSeq)

\* char::to_digit(10) of a digit
to_digit(c) == IndexOf(DigitSeq, c) - 1

\* char::is_alphabetic, on the ASCII letters
is_alphabetic(c) == c \in Range(LowerSeq) \cup Range(UpperSeq)

\* char::is_alphanumeric
is_alphanumeric(c) == is_alphabetic(c) \/ is_digit(c)

char_to_uppercase(c) == IF c \in Range(LowerSeq) THEN UpperSeq[IndexOf(LowerSeq, c)] ELSE c

char_to_lowercase(c) == IF c \in Range(UpperSeq) THEN LowerSeq[IndexOf(UpperSeq, c)] ELSE c

\* str::to_uppercase
to_uppercase(s) == [i \in DOMAIN s |-> char_to_uppercase(s[i])]

\* str::to_lowercase
to_lowercase(s) == [i \in DOMAIN s |-> char_to_lowercase(s[i])]

(***************************************************************************)
(* u32 and i32                                                             *)
(***************************************************************************)

Limb == 2^16

\* a u32 from a small natural number
U32Of(n) == [hi |-> n \div Limb, lo |-> n % Limb]

I32Max == (2^15 - 1) * Limb + (Limb - 1)

I32Min == (-(2^15)) * Limb

\* `value as i32` of a u32: the same 32 bits read as two's complement
AsI32(v) == IF v.hi >= 2^15 THEN (v.hi - Limb) * Limb + v.lo ELSE v.hi * Limb + v.lo

RECURSIVE from_str_radix_from(_, _, _)
\* the checked accumulation of u32::from_str_radix(s, 10) from digit i on
from_str_radix_from(s, i, acc) ==
    IF i > Len(s) THEN [ok |-> TRUE, value |-> acc]
    ELSE LET lo10 == acc.lo * 10 + to_digit(s[i])
             hi10 == acc.hi * 10 + lo10 \div Limb
         IN  IF hi10 >= Limb
             THEN [ok |-> FALSE, value |-> acc]     \* Err(PosOverflow)
             ELSE from_str_radix_from(s, i + 1, [hi |-> hi10, lo |-> lo10 % Limb])

\* u32::from_str_radix(s, 10): Err on the empty string and on overflow
from_str_radix(s) ==
    IF s = <<>> THEN [ok |-> FALSE, value |-> U32Of(0)]
    ELSE from_str_radix_from(s, 1, U32Of(0))

(***************************************************************************)
(* Tokens                                                                  *)
(***************************************************************************)

NoValue == "NoValue"

\* a Token: its variant and, for the three variants that carry one, its value
Token(type, val) == [type |-> type, value |-> val]

Unit(type) == Token(type, NoValue)

NoToken == Unit("None")

\* the variants of lexer.rs's Token that carry a value field
ValueVariants == {"IntegerLiteral", "RealLiteral", "Identifier"}

\* derived PartialEq of Token
TokenEq(a, b) == a.type = b.type /\ a.value = b.value

KEYWORD_TOKENS ==
    { <<(<<"P","R","O","G","R","A","M">>), "Program">>,
      <<(<<"V","A","R">>), "Var">>,
      <<(<<"B","E","G","I","N">>), "Begin">>,
      <<(<<"E","N","D">>), "End">>,
      <<(<<"I","N","T","E","G","E","R">>), "Integer">>,
      <<(<<"R","E","A","L">>), "Real">>,
      <<(<<"D","I","V">>), "IntegerDivide">> }

(***************************************************************************)
(* Lexer                                                                   *)
(***************************************************************************)

\* Lexer::new
LexerNew(text) ==
    [text    |-> IF text = <<>> THEN <<>> ELSE Tail(text),
     current |-> IF text = <<>> THEN None ELSE Head(text)]

\* Lexer::advance: the lexer afterwards (the char returned is lx.current);
\* it is only ever called with a current char
advance(lx) ==
    [text    |-> IF lx.text = <<>> THEN <<>> ELSE Tail(lx.text),
     current |-> IF lx.text = <<>> THEN None ELSE Head(lx.text)]

\* Lexer::peek
peek(lx, c) == lx.text # <<>> /\ Head(lx.text) = c

RECURSIVE skip_whitespace(_)
skip_whitespace(lx) ==
    IF lx.current # None /\ is_whitespace(lx.current)
    THEN skip_whitespace(advance(lx))
    ELSE lx

RECURSIVE skip_comment(_)
skip_comment(lx) ==
    IF lx.current # None /\ lx.current # "}"
    THEN skip_comment(advance(lx))
    ELSE lx

RECURSIVE push_digits(_, _)
\* while self.current is a digit { value.push(self.advance()) }
push_digits(lx, val) ==
    IF lx.current # None /\ is_digit(lx.current)
    THEN push_digits(advance(lx), Append(val, lx.current))
    ELSE [lexer |-> lx, value |-> val]

\* Lexer::number; kind "panic" is the unwrap of from_str_radix's Err
number(lx) ==
    LET int == push_digits(lx, <<>>)
    IN  IF int.lexer.current = "."
        THEN LET frac == push_digits(advance(int.lexer), Append(int.value, "."))
             IN  [lexer |-> frac.lexer, kind |-> "ok",
                  token |-> Token("RealLiteral", frac.value)]
        ELSE LET i == from_str_radix(int.value)
             IN  IF i.ok
                 THEN [lexer |-> int.lexer, kind |-> "ok",
                       token |-> Token("IntegerLiteral", i.value)]
                 ELSE [lexer |-> int.lexer, kind |-> "panic", token |-> NoToken]

RECURSIVE push_alphanumeric(_, _)
\* while self.current is alphanumeric { result.push(self.advance()) }
push_alphanumeric(lx, res) ==
    IF lx.current # None /\ is_alphanumeric(lx.current)
    THEN push_alphanumeric(advance(lx), Append(res, lx.current))
    ELSE [lexer |-> lx, value |-> res]

\* Lexer::identifier
identifier(lx) ==
    IF lx.current # None /\ (lx.current = "_" \/ is_alphabetic(lx.current))
    THEN push_alphanumeric(advance(lx), <<lx.current>>)
    ELSE push_alphanumeric(lx, <<>>)

\* the lookup of id itself in KEYWORD_TOKENS, without to_uppercase
keyword_or_identifier_exact(id) ==
    IF \E e \in KEYWORD_TOKENS : e[1] = id
    THEN Unit((CHOOSE e \in KEYWORD_TOKENS : e[1] = id)[2])
    ELSE Token("Identifier", id)

\* KEYWORD_TOKENS.get(&id.to_uppercase()) or Identifier { value: id }
keyword_or_identifier(id) ==
    LET up == to_uppercase(id)
    IN  IF \E e \in KEYWORD_TOKENS : e[1] = up
        THEN Unit((CHOOSE e \in KEYWORD_TOKENS : e[1] = up)[2])
        ELSE Token("Identifier", id)

LexOk(lx, tok) == [lexer |-> lx, kind |-> "ok", token |-> tok, msg |-> <<>>]

\* invalid(msg)
LexErr(lx, msg) == [lexer |-> lx, kind |-> "err", token |-> NoToken, msg |-> msg]

LexPanic(lx) == [lexer |-> lx, kind |-> "panic", token |-> NoToken, msg |-> <<>>]

\* the single-character tokens of next_token
Punctuation(c) ==
    CASE c = "." -> "Dot"
      [] c = "," -> "Comma"
      [] c = "+" -> "Plus"
      [] c = "-" -> "Minus"
      [] c = "*" -> "Multiply"
      [] c = "/" -> "RealDivide"
      [] c = "(" -> "OpenParen"
      [] c = ")" -> "CloseParen"
      [] c = ";" -> "EndStatement"

RECURSIVE next_token(_)
\* next_token that returns Eof only on the call that reaches the end of the text
next_token_eof_once(lx0) ==
    LET lx == skip_whitespace(lx0)
        c  == lx.current
    IN  IF c = None
        THEN IF lx0.current = None THEN LexErr(lx, <<"no more input">>)
             ELSE LexOk(lx, Unit("Eof"))
        ELSE IF c = "{" THEN next_token(skip_comment(advance(lx)))
        ELSE IF c \in {".", ",", "+", "-", "*", "/", "(", ")", ";"}
             THEN LexOk(advance(lx), Unit(Punctuation(c)))
        ELSE IF c = ":"
             THEN IF peek(lx, "=")
                  THEN LexOk(advance(advance(lx)), Unit("Assign"))
                  ELSE LexOk(advance(lx), Unit("Colon"))
        ELSE IF is_digit(c)
             THEN LET n == number(lx)
                  IN  IF n.kind = "ok" THEN LexOk(n.lexer, n.token) ELSE LexPanic(n.lexer)
        ELSE IF c = "_" \/ is_alphabetic(c)
             THEN LET id == identifier(lx)
                  IN  LexOk(id.lexer, keyword_or_identifier(id.value))
        ELSE LexErr(lx, <<"invalid character", c>>)

\* Lexer::next_token: [lexer afterwards, kind ok | err | panic, token, msg]
next_token(lx0) ==
    LET lx == skip_whitespace(lx0)
        c  == lx.current
    IN  IF c = None THEN LexOk(lx, Unit("Eof"))
        ELSE IF c = "{" THEN next_token(skip_comment(advance(lx)))
        ELSE IF c \in {".", ",", "+", "-", "*", "/", "(", ")", ";"}
             THEN LexOk(advance(lx), Unit(Punctuation(c)))
        ELSE IF c = ":"
             THEN IF peek(lx, "=")
                  THEN LexOk(advance(advance(lx)), Unit("Assign"))
                  ELSE LexOk(advance(lx), Unit("Colon"))
        ELSE IF is_digit(c)
             THEN LET n == number(lx)
                  IN  IF n.kind = "ok" THEN LexOk(n.lexer, n.token) ELSE LexPanic(n.lexer)
        ELSE IF c = "_" \/ is_alphabetic(c)
             THEN LET id == identifier(lx)
                  IN  LexOk(id.lexer, keyword_or_identifier(id.value))
        ELSE LexErr(lx, <<"invalid character", c>>)

(***************************************************************************)
(* AST                                                                     *)
(***************************************************************************)

NoNode == [node |-> "None"]

\* the panic! of a constructor's unreachable arm
PanicNode == [node |-> "panic"]

\* AST::unary_op
unary_op(token, expr_node) ==
    IF token.type \in {"Plus", "Minus"}
    THEN [node |-> "UnaryOp", token |-> token, op |-> token.type, expr |-> expr_node]
    ELSE PanicNode

\* AST::binary_op
binary_op(lhs, token, rhs) ==
    IF token.type \in {"Plus", "Minus", "Multiply", "Divide"}
    THEN [node |-> "BinaryOp", token |-> token, lhs |-> lhs, op |-> token.type, rhs |-> rhs]
    ELSE PanicNode

\* AST::number
ast_number(token, val) == [node |-> "Number", token |-> token, value |-> val]

\* AST::variable
ast_variable(token, name) ==
    [node |-> "Variable", token |-> token, value |-> to_lowercase(name)]

\* AST::assign
ast_assign(token, left, right) ==
    [node |-> "Assign", token |-> token, left |-> left, right |-> right]

\* AST::compound
ast_compound(children) == [node |-> "Compound", children |-> children]

(***************************************************************************)
(* Parser.  A rule takes the parser [lexer, current_token] and returns     *)
(* [p: the parser afterwards, kind: ok | err | panic, node, msg].          *)
(***************************************************************************)

Ok(p, node) == [p |-> p, kind |-> "ok", node |-> node, msg |-> <<>>]

\* invalid(msg)
Invalid(p, msg) == [p |-> p, kind |-> "err", node |-> NoNode, msg |-> msg]

\* the `?` operator on a failed result: the failure goes up, no node with it
Fail(r) == [p |-> r.p, kind |-> r.kind, node |-> NoNode, msg |-> r.msg]

\* a constructor's value, or its panic
Built(p, node) ==
    IF node.node = "panic"
    THEN [p |-> p, kind |-> "panic", node |-> NoNode, msg |-> <<>>]
    ELSE Ok(p, node)

\* the `?` operator: a failed r goes up as it is, an Ok r goes on into K
Try(r, K(_)) == IF r.kind # "ok" THEN Fail(r) ELSE K(r)

\* the Parser, or the failure, that Parser::new makes of lexer.next_token()?
new_parser(t) ==
    [p |-> [lexer |-> t.lexer, current_token |-> t.token],
     kind |-> t.kind, node |-> NoNode, msg |-> t.msg]

\* Parser::new
ParserNew(lx) == new_parser(next_token(lx))

\* the parser after self.current_token = self.lexer.next_token()?
advanced(p, t) ==
    IF t.kind = "ok"
    THEN Ok([lexer |-> t.lexer, current_token |-> t.token], p.current_token)
    ELSE [p |-> [lexer |-> t.lexer, current_token |-> p.current_token],
          kind |-> t.kind, node |-> NoNode, msg |-> t.msg]

\* Parser::advance: node is the token that was current
parser_advance(p) == advanced(p, next_token(p.lexer))

\* Parser::eat
eat(p, token) ==
    IF TokenEq(p.current_token, token)
    THEN Try(parser_advance(p), LAMBDA a : Ok(a.p, NoNode))
    ELSE Invalid(p, <<"expected", token.type>>)

\* Parser::variable
variable(p) ==
    IF p.current_token.type = "Identifier"
    THEN Try(parser_advance(p),
             LAMBDA a : Ok(a.p, ast_variable(a.p.current_token, p.current_token.value)))
    ELSE Invalid(p, <<"expected an identifier">>)

RECURSIVE Rule(_, _)
RECURSIVE term_loop(_, _)
RECURSIVE expr_loop(_, _)
RECURSIVE statement_list_loop(_, _)

\* the unary arm of Parser::factor: the operand is read by self.expr()
factor_unary(p) ==
    Try(parser_advance(p), LAMBDA a :
    Try(Rule("expr", a.p), LAMBDA e :
    Built(e.p, unary_op(a.node, e.node))))

\* the parenthesis arm of Parser::factor
factor_paren(p) ==
    Try(parser_advance(p), LAMBDA a :
    Try(Rule("expr", a.p), LAMBDA e :
    Try(eat(e.p, Unit("CloseParen")), LAMBDA c :
    Ok(c.p, e.node))))

\* the pattern Token::Integer { value } of Parser::factor: lexer.rs's Token has
\* the unit variant Integer (the keyword) and keeps literals in IntegerLiteral
IsIntegerWithValue(token) == token.type = "Integer" /\ token.type \in ValueVariants

\* the pattern Token::Multiply | Token::Divide of Parser::term: lexer.rs's Token
\* has RealDivide and IntegerDivide and no Divide
IsMultiplyOrDivide(token) == token.type \in {"Multiply", "Divide"}

\* the Token::Integer { value } arm of Parser::factor
factor_integer(p) ==
    Try(parser_advance(p), LAMBDA a :
    Ok(a.p, ast_number(a.node, p.current_token.value)))

\* Parser::factor
factor(p) ==
    IF p.current_token.type \in {"Plus", "Minus"} THEN factor_unary(p)
    ELSE IF p.current_token.type = "OpenParen" THEN factor_paren(p)
    ELSE IF IsIntegerWithValue(p.current_token) THEN factor_integer(p)
    ELSE variable(p)

\* the loop of Parser::term
term_loop(p, node) ==
    IF IsMultiplyOrDivide(p.current_token)
    THEN Try(parser_advance(p), LAMBDA a :
         Try(Rule("factor", a.p), LAMBDA f :
         Try(Built(f.p, binary_op(node, a.node, f.node)), LAMBDA n :
         term_loop(n.p, n.node))))
    ELSE Ok(p, node)

\* Parser::term
term(p) == Try(factor(p), LAMBDA f : term_loop(f.p, f.node))

\* the loop of Parser::expr
expr_loop(p, node) ==
    IF p.current_token.type \in {"Plus", "Minus"}
    THEN Try(parser_advance(p), LAMBDA a :
         Try(Rule("term", a.p), LAMBDA t :
         Try(Built(t.p, binary_op(node, a.node, t.node)), LAMBDA n :
         expr_loop(n.p, n.node))))
    ELSE Ok(p, node)

\* Parser::expr
expr(p) == Try(term(p), LAMBDA t : expr_loop(t.p, t.node))

\* the left-hand side of Parser::assignment_statement: the name of the Variable
left_of(v) ==
    IF v.node.node = "Variable" THEN Ok(v.p, v.node.value)
    ELSE Invalid(v.p, <<"must have a variable on LHS of assignment">>)

\* Parser::assignment_statement
assignment_statement(p) ==
    Try(variable(p), LAMBDA v :
    Try(left_of(v), LAMBDA left :
    Try(eat(left.p, Unit("Assign")), LAMBDA e :
    Try(expr(e.p), LAMBDA right :
    Ok(right.p, ast_assign(left.p.current_token, left.node, right.node))))))

\* Parser::statement
statement(p) ==
    IF p.current_token.type = "Begin" THEN Rule("compound_statement", p)
    ELSE IF p.current_token.type = "Identifier" THEN assignment_statement(p)
    ELSE Invalid(p, <<"expected a statement">>)

\* the loop of Parser::statement_list
statement_list_loop(p, nodes) ==
    IF p.current_token.type = "EndStatement"
    THEN Try(parser_advance(p), LAMBDA a : statement_list_loop(a.p, nodes))
    ELSE IF p.current_token.type = "End" THEN Ok(p, nodes)
    ELSE Try(statement(p), LAMBDA s : statement_list_loop(s.p, Append(nodes, s.node)))

\* Parser::statement_list
statement_list(p) == statement_list_loop(p, <<>>)

\* Parser::compound_statement
compound_statement(p) ==
    Try(eat(p, Unit("Begin")), LAMBDA b :
    Try(statement_list(b.p), LAMBDA statements :
    Try(eat(statements.p, Unit("End")), LAMBDA e :
    Ok(e.p, ast_compound(statements.node)))))

\* a recursive call of one grammar rule from inside another: self.<name>()
Rule(name, p) ==
    CASE name = "expr" -> expr(p)
      [] name = "term" -> term(p)
      [] name = "factor" -> factor(p)
      [] name = "compound_statement" -> compound_statement(p)

\* Parser::program
program(p) ==
    Try(compound_statement(p), LAMBDA node :
    Try(eat(node.p, Unit("Dot")), LAMBDA d :
    Ok(d.p, node.node)))

\* parse without its eat(&Token::Eof)
parse_without_eof(p) == program(p)

\* Parser::parse
parse(p) ==
    Try(program(p), LAMBDA node :
    Try(eat(node.p, Unit("Eof")), LAMBDA e :
    Ok(e.p, node.node)))

(***************************************************************************)
(* i32 arithmetic.  An overflowing +, -, * or unary - panics when the      *)
(* build checks overflow and wraps otherwise; / panics on a zero divisor   *)
(* and on i32::MIN / -1 in every build.                                    *)
(***************************************************************************)

AddOverflows(a, b) == (b > 0 /\ a > I32Max - b) \/ (b < 0 /\ a < I32Min - b)

\* i32::wrapping_add
wrapping_add(a, b) ==
    IF b > 0 /\ a > I32Max - b THEN (a + I32Min) + (b + I32Min)
    ELSE IF b < 0 /\ a < I32Min - b THEN (a - I32Min) + (b - I32Min)
    ELSE a + b

SubOverflows(a, b) == (b < 0 /\ a > I32Max + b) \/ (b > 0 /\ a < I32Min + b)

\* i32::wrapping_sub
wrapping_sub(a, b) ==
    IF b < 0 /\ a > I32Max + b THEN (a + I32Min) + (((-1) - b) + I32Min) + 1
    ELSE IF b > 0 /\ a < I32Min + b THEN ((a - I32Min) + (I32Max - b)) + 1
    ELSE a - b

NegOverflows(a) == a = I32Min

\* i32::wrapping_neg
wrapping_neg(a) == IF a = I32Min THEN I32Min ELSE -a

MulOverflows(a, b) ==
    IF a = 0 \/ b = 0 THEN FALSE
    ELSE IF a > 0 /\ b > 0 THEN a > I32Max \div b
    ELSE IF a > 0 /\ b < 0 THEN b < (I32Min + a - 1) \div a
    ELSE IF a < 0 /\ b > 0 THEN a < (I32Min + b - 1) \div b
    ELSE a = I32Min \/ b = I32Min \/ (-a) > I32Max \div (-b)

RECURSIVE wrapping_mul_nat(_, _)
\* a * n modulo 2^32 for n >= 0, by doubling
wrapping_mul_nat(a, n) ==
    IF n = 0 THEN 0
    ELSE LET half == wrapping_mul_nat(wrapping_add(a, a), n \div 2)
         IN  IF n % 2 = 1 THEN wrapping_add(a, half) ELSE half

\* i32::wrapping_mul
wrapping_mul(a, b) ==
    IF b >= 0 THEN wrapping_mul_nat(a, b)
    ELSE IF b = I32Min THEN (IF a % 2 = 0 THEN 0 ELSE I32Min)
    ELSE wrapping_neg(wrapping_mul_nat(a, -b))

DivPanics(a, b) == b = 0 \/ (a = I32Min /\ b = -1)

\* a / b of i32, truncating toward zero, where it does not panic
truncating_div(a, b) ==
    IF b > 0 THEN (IF a >= 0 THEN a \div b ELSE (a + b - 1) \div b)
    ELSE IF b = I32Min THEN (IF a = I32Min THEN 1 ELSE 0)
    ELSE IF a >= 0 THEN -(a \div (-b))
    ELSE -((a + (-b) - 1) \div (-b))

\* an arithmetic result: [kind: ok | panic, value]
Arith(overflows, wrapped, checks) ==
    IF overflows /\ checks THEN [kind |-> "panic", value |-> 0]
    ELSE [kind |-> "ok", value |-> wrapped]

\* the match on op of interpret's BinaryOp arm
apply_binary(op, l, r, checks) ==
    CASE op = "Plus"     -> Arith(AddOverflows(l, r), wrapping_add(l, r), checks)
      [] op = "Minus"    -> Arith(SubOverflows(l, r), wrapping_sub(l, r), checks)
      [] op = "Multiply" -> Arith(MulOverflows(l, r), wrapping_mul(l, r), checks)
      [] op = "Divide"   -> IF DivPanics(l, r) THEN [kind |-> "panic", value |-> 0]
                            ELSE [kind |-> "ok", value |-> truncating_div(l, r)]

\* the match on op of interpret's UnaryOp arm
apply_unary(op, v, checks) ==
    IF op = "Plus" THEN [kind |-> "ok", value |-> v]
    ELSE Arith(NegOverflows(v), wrapping_neg(v), checks)

(***************************************************************************)
(* Scope and interpret                                                     *)
(***************************************************************************)

\* Scope::new
ScopeNew == << >>

\* Scope::assign
scope_assign(sc, name, v) ==
    [n \in DOMAIN sc \cup {name} |-> IF n = name THEN v ELSE sc[n]]

\* Scope::get: the index panics on a missing key
scope_get(sc, name) ==
    IF name \in DOMAIN sc THEN [kind |-> "ok", value |-> sc[name]]
    ELSE [kind |-> "panic", value |-> 0]

Value(kind, v, sc) == [kind |-> kind, value |-> v, scope |-> sc]

RECURSIVE interpret(_, _, _)
RECURSIVE interpret_children(_, _, _, _, _)

\* interpret of a Compound that stops after its first child
interpret_children_first_only(children, i, acc, sc, checks) ==
    IF i > Len(children) THEN Value("ok", acc, sc)
    ELSE interpret(children[i], sc, checks)

\* children.iter().fold(0, |_, c| interpret(c, scope)) from child i on
interpret_children(children, i, acc, sc, checks) ==
    IF i > Len(children) THEN Value("ok", acc, sc)
    ELSE LET c == interpret(children[i], sc, checks)
         IN  IF c.kind # "ok" THEN c
             ELSE interpret_children(children, i + 1, c.value, c.scope, checks)

\* interpret: [kind: ok | panic, value, scope afterwards]
interpret(ast, sc, checks) ==
    CASE ast.node = "Compound" -> interpret_children(ast.children, 1, 0, sc, checks)
      [] ast.node = "Assign" ->
            LET r == interpret(ast.right, sc, checks)
            IN  IF r.kind # "ok" THEN r
                ELSE Value("ok", r.value, scope_assign(r.scope, ast.left, r.value))
      [] ast.node = "UnaryOp" ->
            LET e == interpret(ast.expr, sc, checks)
            IN  IF e.kind # "ok" THEN e
                ELSE LET u == apply_unary(ast.op, e.value, checks)
                     IN  Value(u.kind, u.value, e.scope)
      [] ast.node = "BinaryOp" ->
            LET l == interpret(ast.lhs, sc, checks)
            IN  IF l.kind # "ok" THEN l
                ELSE LET r == interpret(ast.rhs, l.scope, checks)
                     IN  IF r.kind # "ok" THEN r
                         ELSE LET b == apply_binary(ast.op, l.value, r.value, checks)
                              IN  Value(b.kind, b.value, r.scope)
      [] ast.node = "Number" -> Value("ok", AsI32(ast.value), sc)
      [] ast.node = "Variable" ->
            LET g == scope_get(sc, ast.value)
            IN  Value(g.kind, g.value, sc)

(***************************************************************************)
(* Source texts                                                            *)
(***************************************************************************)

RECURSIVE Cat(_)
\* the concatenation of a sequence of strings
Cat(ss) == IF ss = <<>> THEN <<>> ELSE Head(ss) \o Cat(Tail(ss))

RECURSIVE Join(_)
\* the lexemes of ls, one space between two
Join(ls) ==
    IF ls = <<>> THEN <<>>
    ELSE IF Len(ls) = 1 THEN ls[1]
    ELSE ls[1] \o <<" ">> \o Join(Tail(ls))

\* the sequences over S of length at most n
SeqsUpTo(S, n) == UNION {[1..k -> S] : k \in 0..n}

kBEGIN == <<"B","E","G","I","N">>

kEND == <<"E","N","D">>

\* the text of tests::test_sample_program
SampleProgram == <<
    "\n", "\t", "\t", "\t", "B", "E", "G", "I", "N", "\n", "\t", "\t", "\t", "\t", "B", "E",
    "G", "I", "N", "\n", "\t", "\t", "\t", "\t", "\t", "n", "u", "m", "b", "e", "r", " ",
    ":", "=", " ", "2", ";", "\n", "\t", "\t", "\t", "\t", "\t", "a", " ", ":", "=", " ",
    "n", "u", "n", "b", "e", "r", ";", "\n", "\t", "\t", "\t", "\t", "\t", "b", " ", ":",
    "=", " ", "1", "0", " ", "*", " ", "a", " ", "+", " ", "1", "0", " ", "*", " ",
    "n", "u", "m", "b", "e", "r", " ", "/", " ", "4", ";", "\n", "\t", "\t", "\t", "\t",
    "\t", "c", " ", ":", "=", " ", "a", " ", "-", " ", "-", " ", "b", ";", "\n", "\t",
    "\t", "\t", "\t", "E", "N", "D", ";", "\n", "\t", "\t", "\t", "\t", "x", " ", ":", "=",
    " ", "1", "1", ";", "\n", "\t", "\t", "\t", "E", "N", "D", ".", "\n", "\t", "\t", "\t" >>

\* the specification's example: sequential compound evaluation
ProgSequential == <<"B","E","G","I","N"," ","x"," ",":","="," ","2",";"," ","y"," ",":","="," ","x"," ","*"," ","1","0"," ","+"," ","5",";"," ","E","N","D",".">>

\* the specification's example: `A := 1; b := A`
ProgCase == <<"B","E","G","I","N"," ","A"," ",":","="," ","1",";"," ","b"," ",":","="," ","A"," ","E","N","D",".">>

\* the same with a variable for the literal
ProgCaseVars == <<"B","E","G","I","N"," ","A"," ",":","="," ","c",";"," ","b"," ",":","="," ","a"," ","E","N","D",".">>

\* two statements with no `;` between them
ProgNoSeparator == <<"B","E","G","I","N"," ","x"," ",":","="," ","1"," ","y"," ",":","="," ","2"," ","E","N","D",".">>

\* the same with variables for the literals
ProgNoSeparatorVars == <<"B","E","G","I","N"," ","x"," ",":","="," ","a"," ","y"," ",":","="," ","b"," ","E","N","D",".">>

\* the specification's example: the missing expression
ProgMissingExpr == <<"B","E","G","I","N"," ","x"," ",":","="," ",";"," ","E","N","D",".">>

\* the specification's example: z was never assigned
ProgUndefined == <<"B","E","G","I","N"," ","y"," ",":","="," ","z",";"," ","E","N","D",".">>

\* `- a + b`
ProgUnaryPlus == <<"B","E","G","I","N"," ","x"," ",":","="," ","-"," ","a"," ","+"," ","b"," ","E","N","D",".">>

\* `- a * b`
ProgUnaryTimes == <<"B","E","G","I","N"," ","x"," ",":","="," ","-"," ","a"," ","*"," ","b"," ","E","N","D",".">>

\* the specification's example: 2 + 3 * 4
ProgPrecedence == <<"B","E","G","I","N"," ","x"," ",":","="," ","2"," ","+"," ","3"," ","*"," ","4"," ","E","N","D",".">>

\* the specification's example: (2 + 3) * 4
ProgParens == <<"B","E","G","I","N"," ","x"," ",":","="," ","(","2"," ","+"," ","3",")"," ","*"," ","4"," ","E","N","D",".">>

\* the specification's example: 10 - 2 - 3
ProgLeftAssoc == <<"B","E","G","I","N"," ","x"," ",":","="," ","1","0"," ","-"," ","2"," ","-"," ","3"," ","E","N","D",".">>

\* a + b * c
ProgPrecedenceVars == <<"B","E","G","I","N"," ","x"," ",":","="," ","a"," ","+"," ","b"," ","*"," ","c"," ","E","N","D",".">>

\* a - b - c
ProgLeftAssocVars == <<"B","E","G","I","N"," ","x"," ",":","="," ","a"," ","-"," ","b"," ","-"," ","c"," ","E","N","D",".">>

\* a / b
ProgDivideVars == <<"B","E","G","I","N"," ","x"," ",":","="," ","a"," ","/"," ","b"," ","E","N","D",".">>

\* one assignment of a literal
ProgOneLiteral == <<"B","E","G","I","N"," ","x"," ",":","="," ","1","1"," ","E","N","D",".">>

\* a literal beyond u32 after the `.`
ProgTrailingLiteral == <<"B","E","G","I","N"," ","E","N","D","."," ","9","9","9","9","9","9","9","9","9","9","9">>

NamedPrograms ==
    {ProgSequential,
     ProgCase,
     ProgCaseVars,
     ProgNoSeparator,
     ProgNoSeparatorVars,
     ProgMissingExpr,
     ProgUndefined,
     ProgUnaryPlus,
     ProgUnaryTimes,
     ProgPrecedence,
     ProgParens,
     ProgLeftAssoc,
     ProgPrecedenceVars,
     ProgLeftAssocVars,
     ProgDivideVars,
     ProgOneLiteral,
     ProgTrailingLiteral,
     SampleProgram}

(***************************************************************************)
(* The inputs, within the bounds                                           *)
(***************************************************************************)

\* the longest text drawn char by char
MaxLen == 4

\* the longest run of digits drawn
MaxDigits == 10

\* the most next_token calls a caller makes on one Lexer
MaxCalls == 6

\* the most lexemes of a program drawn lexeme by lexeme
MaxLexemes == 3

\* the most chunks between the outer BEGIN and the end of a drawn program
MaxChunks == 3

\* the most statements of a Compound given to interpret directly
MaxChildren == 3

LexAlphabet == {"{", "}", " ", "a", "_", "9", ";"}

CharTexts == SeqsUpTo(LexAlphabet, MaxLen)

\* every upper-, lower- and mixed-case spelling of the word w
Casings(w) ==
    {[i \in DOMAIN w |-> IF i \in S THEN char_to_lowercase(w[i]) ELSE w[i]] :
        S \in SUBSET DOMAIN w}

KeywordSpellings == UNION {Casings(e[1]) : e \in KEYWORD_TOKENS}

\* words that are no keyword: those of lexer.rs's tests and near misses of keywords
OtherWords ==
    { <<"f","o","o">>, <<"f","o","o","4","2","b","a","r">>, <<"B","e","g","i","n","s">>,
      <<"E","N">>, <<"e","n","d","1">>, <<"_","E","N","D">>, <<"D","i","v","X">>,
      <<"x">>, <<"_">>, <<"V","a","r","0">>,
      <<"f","o","o","_","b","a","r">> }

DigitTexts == UNION {[1..k -> {"4", "9"}] : k \in 1..MaxDigits}

\* the literals around u32::MAX
BoundaryLiterals ==
    { <<"4","2","9","4","9","6","7","2","9","5">>, <<"4","2","9","4","9","6","7","2","9","6">>,
      <<"0">>, <<"1","2","3">>, <<"0","0","0","4","2","9","4","9","6","7","2","9","5">>,
      <<"1","2","3",".","4","5","6">> }

LexTexts == CharTexts \cup KeywordSpellings \cup OtherWords \cup DigitTexts \cup BoundaryLiterals

Lexicon == { kBEGIN, kEND, <<".">>, <<";">>, <<"x">>, <<":","=">>, <<"-">>, <<"(">> }

LexemePrograms == {Join(ls) : ls \in SeqsUpTo(Lexicon, MaxLexemes)}

Chunks ==
    { <<"x"," ",":","="," ","a">>, <<"Y"," ",":","="," ","-"," ","a"," ","*"," ","(","b",")">>,
      <<"x"," ",":","=">>, <<";">>, kBEGIN, kEND }

Endings ==
    { <<"E","N","D",".">>, <<"E","N","D","."," ","x">>, <<"E","N","D">>, <<"E","N","D",".",".">> }

ChunkPrograms ==
    {Join(<<kBEGIN>> \o cs \o <<e>>) : cs \in SeqsUpTo(Chunks, MaxChunks), e \in Endings}

Programs == NamedPrograms \cup LexemePrograms \cup ChunkPrograms

(***************************************************************************)
(* The callers                                                             *)
(***************************************************************************)

NoResult == [kind |-> "none", node |-> NoNode, msg |-> <<>>]

NoOutcome == [kind |-> "none", value |-> 0]

\* a caller holding a fresh Lexer over text, in program position at
InitText(texts, at) ==
    /\ source \in texts
    /\ lexer = LexerNew(source)
    /\ returned = <<>>
    /\ current_token = NoToken
    /\ result = NoResult
    /\ scope = ScopeNew
    /\ value = NoOutcome
    /\ overflow_checks \in BOOLEAN
    /\ pc = at

\* one call of Lexer::next_token by a caller that drains the lexer
NextToken ==
    /\ pc = "lexing"
    /\ Len(returned) < MaxCalls
    /\ \E t \in {next_token(lexer)} :
           /\ lexer' = t.lexer
           /\ returned' = Append(returned, [kind |-> t.kind, token |-> t.token, msg |-> t.msg])
           /\ pc' = IF t.kind = "panic" THEN "aborted" ELSE "lexing"
    /\ UNCHANGED <<source, current_token, result, scope, value, overflow_checks>>

\* Parser::new(lexer)
NewParser ==
    /\ pc = "start"
    /\ \E r \in {ParserNew(lexer)} :
           /\ lexer' = r.p.lexer
           /\ current_token' = r.p.current_token
           /\ pc' = CASE r.kind = "ok" -> "ready"
                      [] r.kind = "err" -> "failed"
                      [] r.kind = "panic" -> "aborted"
    /\ UNCHANGED <<source, returned, result, scope, value, overflow_checks>>

\* parser.parse()
Parse ==
    /\ pc = "ready"
    /\ \E r \in {parse([lexer |-> lexer, current_token |-> current_token])} :
           /\ lexer' = r.p.lexer
           /\ current_token' = r.p.current_token
           /\ result' = [kind |-> r.kind, node |-> r.node, msg |-> r.msg]
           /\ pc' = IF r.kind = "panic" THEN "aborted" ELSE "parsed"
    /\ UNCHANGED <<source, returned, scope, value, overflow_checks>>

\* interpret(&ast, &mut scope) of the AST parse returned
Interpret ==
    /\ pc = "parsed"
    /\ result.kind = "ok"
    /\ \E v \in {interpret(result.node, scope, overflow_checks)} :
           /\ scope' = v.scope
           /\ value' = [kind |-> v.kind, value |-> v.value]
           /\ pc' = IF v.kind = "panic" THEN "aborted" ELSE "done"
    /\ UNCHANGED <<source, lexer, returned, current_token, result, overflow_checks>>

InitLexer == InitText(LexTexts, "lexing")

NextLexer == NextToken

\* a caller that drains one Lexer with next_token
SpecLexer == InitLexer /\ [][NextLexer]_vars

InitParser == InitText(Programs, "start")

NextParser == NewParser \/ Parse \/ Interpret

\* a caller that parses one program and interprets the AST in a new Scope
SpecParser == InitParser /\ [][NextParser]_vars

(***************************************************************************)
(* ASTs given to interpret directly, built with the constructors of ast.rs *)
(***************************************************************************)

Name(c) == <<c>>

Num(n) == ast_number(Token("IntegerLiteral", U32Of(n)), U32Of(n))

Var(c) == ast_variable(Token("Identifier", Name(c)), Name(c))

Bin(l, op, r) == binary_op(l, Unit(op), r)

Neg(e) == unary_op(Unit("Minus"), e)

Asg(c, e) == ast_assign(Unit("Assign"), Name(c), e)

\* the AST of `BEGIN x := 2; y := x * 10 + 5; END.`
ASTSequential ==
    ast_compound(<< Asg("x", Num(2)),
                    Asg("y", Bin(Bin(Var("x"), "Multiply", Num(10)), "Plus", Num(5))) >>)

GivenStatements ==
    { Asg("x", Num(2)),
      Asg("y", Bin(Bin(Var("x"), "Multiply", Num(10)), "Plus", Num(5))),
      Asg("x", Bin(Var("y"), "Minus", Var("x"))),
      Asg("y", Neg(Var("x"))),
      Asg("x", Bin(Num(7), "Divide", Var("y"))),
      Asg("x", Bin(Bin(Num(32767), "Multiply", Num(65536)), "Plus", Bin(Var("x"), "Multiply", Num(32768)))),
      Asg("y", Var("z")),
      ast_compound(<< Asg("x", Num(5)), Asg("z", Var("x")) >>) }

GivenASTs == {ast_compound(cs) : cs \in SeqsUpTo(GivenStatements, MaxChildren)}

\* a caller that holds an AST and a new Scope
InitInterpreter ==
    /\ source = <<>>
    /\ lexer = LexerNew(source)
    /\ returned = <<>>
    /\ current_token = Unit("Eof")
    /\ result \in {[kind |-> "ok", node |-> ast, msg |-> <<>>] : ast \in GivenASTs}
    /\ scope = ScopeNew
    /\ value = NoOutcome
    /\ overflow_checks \in BOOLEAN
    /\ pc = "parsed"

NextInterpreter == Interpret

\* a caller that interprets one AST in a new Scope
SpecInterpreter == InitInterpreter /\ [][NextInterpreter]_vars

(***************************************************************************)
(* main.rs: the calculator of one arithmetic expression, with its own      *)
(* Token, Lexer and Parser.  Its Lexer::new, advance and skip_whitespace   *)
(* and its AST constructors read as those of lexer.rs and ast.rs do.       *)
(***************************************************************************)

RECURSIVE main_integer(_, _, _)
\* main.rs Lexer::integer from the accumulated i on: i = (i * 10) + d in u32,
\* which panics on overflow when the build checks overflow and wraps otherwise
main_integer(lx, i, checks) ==
    IF lx.current # None /\ is_digit(lx.current)
    THEN IF i.hi * 10 + (i.lo * 10 + to_digit(lx.current)) \div Limb >= Limb /\ checks
         THEN [lexer |-> lx, kind |-> "panic", value |-> i]
         ELSE main_integer(advance(lx),
                           [hi |-> (i.hi * 10 + (i.lo * 10 + to_digit(lx.current)) \div Limb) % Limb,
                            lo |-> (i.lo * 10 + to_digit(lx.current)) % Limb],
                           checks)
    ELSE [lexer |-> lx, kind |-> "ok", value |-> i]

\* the Token::Integer of main.rs Lexer::next_token
main_integer_token(n) ==
    IF n.kind = "ok" THEN LexOk(n.lexer, Token("Integer", n.value)) ELSE LexPanic(n.lexer)

\* main.rs Lexer::next_token after skip_whitespace
main_token_at(lx, checks) ==
    IF lx.current = None THEN LexOk(lx, Unit("Eof"))
    ELSE IF lx.current = "+" THEN LexOk(advance(lx), Unit("Plus"))
    ELSE IF lx.current = "-" THEN LexOk(advance(lx), Unit("Minus"))
    ELSE IF lx.current = "*" THEN LexOk(advance(lx), Unit("Multiply"))
    ELSE IF lx.current = "/" THEN LexOk(advance(lx), Unit("Divide"))
    ELSE IF lx.current = "(" THEN LexOk(advance(lx), Unit("OpenParen"))
    ELSE IF lx.current = ")" THEN LexOk(advance(lx), Unit("CloseParen"))
    ELSE IF is_digit(lx.current) THEN main_integer_token(main_integer(lx, U32Of(0), checks))
    ELSE LexErr(lx, <<"invalid character", lx.current>>)

\* main.rs Lexer::next_token
main_next_token(lx, checks) == main_token_at(skip_whitespace(lx), checks)

\* main.rs Parser::new
main_new(lx, checks) == new_parser(main_next_token(lx, checks))

\* main.rs Parser::advance: node is the token that was current
main_advance(p, checks) == advanced(p, main_next_token(p.lexer, checks))

\* main.rs Parser::eat
main_eat(p, token, checks) ==
    IF TokenEq(p.current_token, token)
    THEN Try(main_advance(p, checks), LAMBDA a : Ok(a.p, NoNode))
    ELSE Invalid(p, <<"expected", token.type>>)

RECURSIVE main_rule(_, _, _)
RECURSIVE main_term_loop(_, _, _)
RECURSIVE main_expr_loop(_, _, _)

\* main.rs Parser::factor; the Number keeps the token after the literal
main_factor(p, checks) ==
    IF p.current_token.type \in {"Plus", "Minus"}
    THEN Try(main_advance(p, checks), LAMBDA a :
         Try(main_rule("expr", a.p, checks), LAMBDA e :
         Built(e.p, unary_op(a.node, e.node))))
    ELSE IF p.current_token.type = "OpenParen"
    THEN Try(main_advance(p, checks), LAMBDA a :
         Try(main_rule("expr", a.p, checks), LAMBDA e :
         Try(main_eat(e.p, Unit("CloseParen"), checks), LAMBDA c :
         Ok(c.p, e.node))))
    ELSE IF p.current_token.type = "Integer"
    THEN Try(main_advance(p, checks), LAMBDA a :
         Ok(a.p, ast_number(a.p.current_token, p.current_token.value)))
    ELSE Invalid(p, <<"expected integer">>)

\* the loop of main.rs Parser::term
main_term_loop(p, node, checks) ==
    IF p.current_token.type \in {"Multiply", "Divide"}
    THEN Try(main_advance(p, checks), LAMBDA a :
         Try(main_rule("factor", a.p, checks), LAMBDA f :
         Try(Built(f.p, binary_op(node, a.node, f.node)), LAMBDA n :
         main_term_loop(n.p, n.node, checks))))
    ELSE Ok(p, node)

\* main.rs Parser::term
main_term(p, checks) ==
    Try(main_factor(p, checks), LAMBDA f : main_term_loop(f.p, f.node, checks))

\* the loop of main.rs Parser::expr
main_expr_loop(p, node, checks) ==
    IF p.current_token.type \in {"Plus", "Minus"}
    THEN Try(main_advance(p, checks), LAMBDA a :
         Try(main_rule("term", a.p, checks), LAMBDA t :
         Try(Built(t.p, binary_op(node, a.node, t.node)), LAMBDA n :
         main_expr_loop(n.p, n.node, checks))))
    ELSE Ok(p, node)

\* main.rs Parser::expr
main_expr(p, checks) ==
    Try(main_term(p, checks), LAMBDA t : main_expr_loop(t.p, t.node, checks))

\* a recursive call of one grammar rule of main.rs from inside another
main_rule(name, p, checks) ==
    CASE name = "expr" -> main_expr(p, checks)
      [] name = "term" -> main_term(p, checks)
      [] name = "factor" -> main_factor(p, checks)

\* main.rs Parser::parse
main_parse(p, checks) == main_expr(p, checks)

\* main.rs interpret: it has no Scope, and its arms compute as interpreter.rs's do
main_interpret(ast, checks) == interpret(ast, ScopeNew, checks)

(***************************************************************************)
(* The expressions given to main.rs, and its read loop's one iteration     *)
(***************************************************************************)

\* `- 1 + 2`
ExprUnaryPlus == <<"-"," ","1"," ","+"," ","2">>

\* `- 2 * 3`
ExprUnaryTimes == <<"-"," ","2"," ","*"," ","3">>

\* `2 + 3 * 4`
ExprPrecedence == <<"2"," ","+"," ","3"," ","*"," ","4">>

\* `(2 + 3) * 4`
ExprParens == <<"(","2"," ","+"," ","3",")"," ","*"," ","4">>

\* `10 - 2 - 3`
ExprLeftAssoc == <<"1","0"," ","-"," ","2"," ","-"," ","3">>

\* `100 / 10 / 5`
ExprLeftAssocDivide == <<"1","0","0"," ","/"," ","1","0"," ","/"," ","5">>

\* `4294967296`
ExprWrapLiteral == <<"4","2","9","4","9","6","7","2","9","6">>

\* `2147483647 + 1`
ExprAddOverflow == <<"2","1","4","7","4","8","3","6","4","7"," ","+"," ","1">>

\* `7 / 0`
ExprDivideByZero == <<"7"," ","/"," ","0">>

\* `2 3`
ExprTrailing == <<"2"," ","3">>

NamedExpressions ==
    {ExprUnaryPlus,
     ExprUnaryTimes,
     ExprPrecedence,
     ExprParens,
     ExprLeftAssoc,
     ExprLeftAssocDivide,
     ExprWrapLiteral,
     ExprAddOverflow,
     ExprDivideByZero,
     ExprTrailing}

\* the most lexemes of an expression drawn lexeme by lexeme
MaxTokens == 4

ExprLexicon == { <<"2">>, <<"3">>, <<"+">>, <<"-">>, <<"*">>, <<"/">>, <<"(">>, <<")">> }

Expressions == NamedExpressions \cup {Join(ls) : ls \in SeqsUpTo(ExprLexicon, MaxTokens)}

\* main.rs Parser::new(&mut lexer)?
MainNewParser ==
    /\ pc = "start"
    /\ \E r \in {main_new(lexer, overflow_checks)} :
           /\ lexer' = r.p.lexer
           /\ current_token' = r.p.current_token
           /\ pc' = CASE r.kind = "ok" -> "ready"
                      [] r.kind = "err" -> "failed"
                      [] r.kind = "panic" -> "aborted"
    /\ UNCHANGED <<source, returned, result, scope, value, overflow_checks>>

\* main.rs parser.parse()?
MainParse ==
    /\ pc = "ready"
    /\ \E r \in {main_parse([lexer |-> lexer, current_token |-> current_token], overflow_checks)} :
           /\ lexer' = r.p.lexer
           /\ current_token' = r.p.current_token
           /\ result' = [kind |-> r.kind, node |-> r.node, msg |-> r.msg]
           /\ pc' = IF r.kind = "panic" THEN "aborted" ELSE "parsed"
    /\ UNCHANGED <<source, returned, scope, value, overflow_checks>>

\* main.rs interpret(&ast)
MainInterpret ==
    /\ pc = "parsed"
    /\ result.kind = "ok"
    /\ \E v \in {main_interpret(result.node, overflow_checks)} :
           /\ value' = [kind |-> v.kind, value |-> v.value]
           /\ pc' = IF v.kind = "panic" THEN "aborted" ELSE "done"
    /\ UNCHANGED <<source, lexer, returned, current_token, result, scope, overflow_checks>>

InitMain == InitText(Expressions, "start")

NextMain == MainNewParser \/ MainParse \/ MainInterpret

\* one iteration of main.rs's loop over one line
SpecMain == InitMain /\ [][NextMain]_vars

(***************************************************************************)
(* What the callers observe                                                *)
(***************************************************************************)

RECURSIVE TreeOf(_)
\* an AST without its token fields, a Number by its value as i32
TreeOf(n) ==
    CASE n.node = "Compound" ->
            <<"Compound", [i \in DOMAIN n.children |-> TreeOf(n.children[i])]>>
      [] n.node = "Assign" -> <<"Assign", n.left, TreeOf(n.right)>>
      [] n.node = "UnaryOp" -> <<"UnaryOp", n.op, TreeOf(n.expr)>>
      [] n.node = "BinaryOp" -> <<"BinaryOp", TreeOf(n.lhs), n.op, TreeOf(n.rhs)>>
      [] n.node = "Number" -> <<"Number", AsI32(n.value)>>
      [] n.node = "Variable" -> <<"Variable", n.value>>
      [] OTHER -> <<n.node>>

\* the caller holds what parse returned
Parsed == pc \in {"parsed", "done"} \/ (pc = "aborted" /\ result.kind = "ok")

\* the digits the operands of the unary examples are drawn from
Operands == {"1", "2", "3"}

\* `- a op b` in main.rs's input
UnaryExpr(a, op, b) == Join(<< <<"-">>, <<a>>, <<op>>, <<b>> >>)

\* C1: a unary minus takes the single factor after it as its operand, so for
\* operands a and b the line `- a + b` parses as
\* BinaryOp(UnaryOp(Minus, a), Plus, b) and evaluates to (-a) + b, and
\* `- a * b` parses as BinaryOp(UnaryOp(Minus, a), Multiply, b)
C1_UnaryBindsTighter ==
    \A a \in Operands, b \in Operands, op \in {"+", "*"} :
        (source = UnaryExpr(a, op, b) /\ Parsed) =>
            /\ result.kind = "ok"
            /\ TreeOf(result.node) =
                   <<"BinaryOp", <<"UnaryOp", "Minus", <<"Number", to_digit(a)>> >>,
                     Punctuation(op), <<"Number", to_digit(b)>> >>
            /\ (pc = "done" /\ op = "+") => value.value = to_digit(b) - to_digit(a)

\* the specification's three expressions as programs, with their values
PrecedenceExamples == { <<ProgPrecedence, 14>>, <<ProgParens, 20>>, <<ProgLeftAssoc, 5>> }

\* C2: `*` and `/` bind tighter than `+` and `-` and every binary operator
\* is left-associative: the programs assigning `2 + 3 * 4`, `(2 + 3) * 4` and
\* `10 - 2 - 3` parse and evaluate to 14, 20 and 5, and `a + b * c`,
\* `a - b - c` and `a / b` parse into the left-folded trees
C2_PrecedenceAndAssociativity ==
    /\ \A e \in PrecedenceExamples :
           source = e[1] =>
               /\ pc \notin {"failed", "aborted"}
               /\ pc = "parsed" => result.kind = "ok"
               /\ pc = "done" => value.value = e[2]
    /\ (source = ProgPrecedenceVars /\ Parsed) =>
           TreeOf(result.node) =
               <<"Compound", << <<"Assign", <<"x">>,
                   <<"BinaryOp", <<"Variable", <<"a">> >>, "Plus",
                      <<"BinaryOp", <<"Variable", <<"b">> >>, "Multiply",
                         <<"Variable", <<"c">> >> >> >> >> >> >>
    /\ (source = ProgLeftAssocVars /\ Parsed) =>
           TreeOf(result.node) =
               <<"Compound", << <<"Assign", <<"x">>,
                   <<"BinaryOp",
                      <<"BinaryOp", <<"Variable", <<"a">> >>, "Minus",
                         <<"Variable", <<"b">> >> >>,
                      "Minus", <<"Variable", <<"c">> >> >> >> >> >>
    /\ (source = ProgDivideVars /\ Parsed) =>
           TreeOf(result.node) =
               <<"Compound", << <<"Assign", <<"x">>,
                   <<"BinaryOp", <<"Variable", <<"a">> >>, "Divide",
                      <<"Variable", <<"b">> >> >> >> >> >>

\* the position of the first `}` of text from position i on, 0 if there is none
RECURSIVE FirstClose(_, _)
FirstClose(text, i) ==
    IF i > Len(text) THEN 0
    ELSE IF text[i] = "}" THEN i
    ELSE FirstClose(text, i + 1)

\* what the first next_token of a Lexer over text returns
FirstToken(text) ==
    [kind  |-> next_token(LexerNew(text)).kind,
     token |-> next_token(LexerNew(text)).token,
     msg   |-> next_token(LexerNew(text)).msg]

\* C3: when the text starts with a terminated comment `{ ... }`, the first
\* next_token returns what it returns on the text after the closing `}`: the
\* first token that follows, or Eof, and no error because of the comment
C3_CommentsSkipped ==
    (/\ Len(returned) >= 1
     /\ source # <<>>
     /\ source[1] = "{"
     /\ FirstClose(source, 2) # 0) =>
        returned[1] = FirstToken(SubSeq(source, FirstClose(source, 2) + 1, Len(source)))

\* C4: a Compound of n >= 1 statements is evaluated in order against one
\* Scope: its value and final Scope are those of its last statement evaluated
\* in the Scope its earlier statements left, every assigned name is bound,
\* and `BEGIN x := 2; y := x * 10 + 5; END.` leaves x = 2, y = 25, value 25
C4_CompoundInOrder ==
    (pc = "done" /\ result.node.node = "Compound" /\ Len(result.node.children) >= 1) =>
        /\ \E before \in {interpret(ast_compound(SubSeq(result.node.children, 1,
                                                         Len(result.node.children) - 1)),
                                    ScopeNew, overflow_checks)} :
               /\ before.kind = "ok"
               /\ \E last \in {interpret(result.node.children[Len(result.node.children)],
                                         before.scope, overflow_checks)} :
                      /\ last.kind = "ok"
                      /\ value.value = last.value
                      /\ scope = last.scope
        /\ \A i \in DOMAIN result.node.children :
               result.node.children[i].node = "Assign" =>
                   result.node.children[i].left \in DOMAIN scope
        /\ result.node = ASTSequential =>
               /\ scope = (Name("x") :> 2) @@ (Name("y") :> 25)
               /\ value.value = 25

\* the example of C4 has been evaluated
C4_Witness ==
    /\ pc = "done"
    /\ result.node = ASTSequential
    /\ Name("y") \in DOMAIN scope
    /\ scope[Name("y")] = 25

\* C5: every key of the Scope is a lower-cased name, and names that differ
\* only in letter case are one entry: `BEGIN A := 1; b := A END.` parses,
\* evaluates, and leaves 1 in b
C5_ScopeKeysLowerCased ==
    /\ \A n \in DOMAIN scope : n = to_lowercase(n)
    /\ source = ProgCase =>
           /\ pc \notin {"failed", "aborted"}
           /\ pc = "parsed" => result.kind = "ok"
           /\ pc = "done" => (Name("b") \in DOMAIN scope /\ scope[Name("b")] = 1)

RECURSIVE tokens_from(_, _)
RECURSIVE tokens_after(_, _)
\* the tokens next_token returns from lx on, up to Eof or the first failure
tokens_from(lx, acc) == tokens_after(next_token(lx), acc)

tokens_after(t, acc) ==
    IF t.kind # "ok" THEN acc
    ELSE IF t.token.type = "Eof" THEN Append(acc, t.token)
    ELSE tokens_from(t.lexer, Append(acc, t.token))

\* the token stream of a source text
TokensOf(text) == tokens_from(LexerNew(text), <<>>)

\* a token that ends a statement directly followed by one that starts a statement
StatementsNotSeparated(toks) ==
    \E i \in 1..(Len(toks) - 1) :
        /\ toks[i].type \in {"Identifier", "IntegerLiteral", "CloseParen", "End"}
        /\ toks[i + 1].type \in {"Identifier", "Begin"}

\* C6: a program in which two statements follow each other with no
\* EndStatement token between them, like `BEGIN x := 1 y := 2 END.`, makes
\* parse return an error
C6_SeparatorRequired ==
    (pc = "parsed" /\ StatementsNotSeparated(TokensOf(source))) => result.kind = "err"

\* well-formed programs: test_sample_program's, and the examples
WellFormedPrograms ==
    {SampleProgram, ProgSequential, ProgCase, ProgOneLiteral, ProgPrecedence,
     ProgParens, ProgLeftAssoc, ProgPrecedenceVars, ProgDivideVars}

\* C7: parse returns Ok for the well-formed programs: nested BEGIN ... END
\* blocks, `;` between statements, a closing `.`, right-hand sides of
\* integer literals, identifiers, `*`, `/`, `+`, `-`
C7_WellFormedParses ==
    source \in WellFormedPrograms =>
        /\ pc # "failed"
        /\ pc = "parsed" => result.kind = "ok"

\* a word: a letter or `_`, then letters and digits
IsWord(s) ==
    /\ s # <<>>
    /\ s[1] = "_" \/ is_alphabetic(s[1])
    /\ \A i \in 2..Len(s) : is_alphanumeric(s[i])

\* s is an upper-, lower- or mixed-case spelling of the upper-case word kw
Spells(s, kw) ==
    /\ Len(s) = Len(kw)
    /\ \A i \in DOMAIN s : s[i] = kw[i] \/ s[i] = char_to_lowercase(kw[i])

\* C8: a word that spells an entry of the keyword table in any letter case
\* lexes to that keyword's token, and every other word lexes to an
\* Identifier that carries exactly the source spelling
C8_KeywordsAnyCase ==
    (Len(returned) >= 1 /\ IsWord(source)) =>
        /\ returned[1].kind = "ok"
        /\ \A e \in KEYWORD_TOKENS :
               Spells(source, e[1]) => returned[1].token = Unit(e[2])
        /\ (\A e \in KEYWORD_TOKENS : ~ Spells(source, e[1])) =>
               returned[1].token = Token("Identifier", source)

\* `BeGiN` has been lexed to Begin
C8_Witness ==
    /\ source = <<"B", "e", "G", "i", "N">>
    /\ Len(returned) >= 1
    /\ returned[1].token = Unit("Begin")

RECURSIVE DecimalMod32(_, _, _)
\* value = value * 10 + digit over the digits of s from i on, modulo 2^32
DecimalMod32(s, i, acc) ==
    IF i > Len(s) THEN acc
    ELSE DecimalMod32(s, i + 1,
             [hi |-> (acc.hi * 10 + (acc.lo * 10 + to_digit(s[i])) \div Limb) % Limb,
              lo |-> (acc.lo * 10 + to_digit(s[i])) % Limb])

\* C9: a run of decimal digits lexes to an integer literal whose value is
\* the decimal value modulo 2^32, and the lexer never fails or aborts on it
C9_LiteralsWrap ==
    (/\ Len(returned) >= 1
     /\ source # <<>>
     /\ \A i \in DOMAIN source : is_digit(source[i])) =>
        /\ returned[1].kind = "ok"
        /\ returned[1].token = Token("IntegerLiteral", DecimalMod32(source, 1, U32Of(0)))

\* the tokens are BEGIN ... END . Eof with nothing after the only `.`
WholeProgram(toks) ==
    /\ Len(toks) >= 4
    /\ toks[1].type = "Begin"
    /\ toks[Len(toks) - 2].type = "End"
    /\ toks[Len(toks) - 1].type = "Dot"
    /\ toks[Len(toks)].type = "Eof"
    /\ \A i \in 1..(Len(toks) - 2) : toks[i].type # "Dot"
    /\ Cardinality({i \in DOMAIN toks : toks[i].type = "Begin"})
           = Cardinality({i \in DOMAIN toks : toks[i].type = "End"})

\* a token other than Eof follows a `.`
TokenAfterDot(toks) ==
    \E i \in 1..(Len(toks) - 1) : toks[i].type = "Dot" /\ toks[i + 1].type # "Eof"

\* C10: parse returns an AST only when the whole token stream up to Eof is
\* one compound_statement and a `.`; when a token other than Eof follows the
\* `.`, or a rule fails as in `BEGIN x := ; END.`, it returns an error, and
\* an error comes with no AST
C10_WholeInputOrError ==
    /\ (Parsed /\ result.kind = "ok") =>
           /\ current_token = Unit("Eof")
           /\ lexer.current = None
           /\ WholeProgram(TokensOf(source))
    /\ (pc = "parsed" /\ TokenAfterDot(TokensOf(source))) => result.kind = "err"
    /\ source = ProgMissingExpr => (pc # "done" /\ (pc = "parsed" => result.kind = "err"))
    /\ result.kind # "ok" => result.node = NoNode

\* a complete program followed by one more token has been refused
C10_Witness ==
    /\ pc = "parsed"
    /\ result.kind = "err"
    /\ result.msg = <<"expected", "Eof">>
    /\ TokenAfterDot(TokensOf(source))

\* r is what next_token returns for Eof
IsEofReturned(r) == r.kind = "ok" /\ r.token.type = "Eof"

\* C11: once next_token has returned Eof, every later call on the same
\* Lexer returns Eof too, without an error, and leaves the lexer as it was
C11_EofAbsorbing ==
    /\ \A i \in DOMAIN returned : \A j \in DOMAIN returned :
           (i < j /\ IsEofReturned(returned[i])) => IsEofReturned(returned[j])
    /\ (returned # <<>> /\ IsEofReturned(returned[Len(returned)])) =>
           /\ lexer.current = None
           /\ lexer.text = <<>>
           /\ next_token(lexer) = LexOk(lexer, Unit("Eof"))

\* a token, then Eof, then Eof again from the same Lexer
C11_Witness ==
    /\ Len(returned) >= 3
    /\ returned[1].kind = "ok"
    /\ returned[1].token.type = "Identifier"
    /\ IsEofReturned(returned[2])
    /\ IsEofReturned(returned[3])

\* a letter or `_`, then letters, digits and `_`, with a `_` after the first char
IsWordWithUnderscore(s) ==
    /\ s # <<>>
    /\ s[1] = "_" \/ is_alphabetic(s[1])
    /\ \A i \in 2..Len(s) : s[i] = "_" \/ is_alphanumeric(s[i])
    /\ \E i \in 2..Len(s) : s[i] = "_"

\* C12: a word of letters, digits and underscores that starts with a letter
\* or `_` is one token: `foo_bar` lexes to Identifier("foo_bar") and the
\* next token is Eof
C12_UnderscoreInsideWord ==
    IsWordWithUnderscore(source) =>
        /\ Len(returned) >= 1 =>
               /\ returned[1].kind = "ok"
               /\ returned[1].token.type = "Identifier"
               /\ returned[1].token.value = source
        /\ Len(returned) >= 2 => IsEofReturned(returned[2])

====
